---- MODULE Spec2Model ----
(***************************************************************************)
(* Model of the album-creation engine of i4tow (src/fastriver/src/index.ts) *)
(* createAlbum and processDirectory run on one JavaScript thread; every    *)
(* action below is one segment of code between two suspension points       *)
(* (await), with the outcome of the awaited external call chosen by \E.    *)
(*                                                                         *)
(* Text is modelled as a sequence of tokens: directory and file names are  *)
(* sequences of one-character strings (a character outside ASCII is        *)
(* written as its code point, "U+0130"), messages and URLs are sequences   *)
(* of fragments, and String.includes is membership of a fragment.          *)
(***************************************************************************)
EXTENDS Integers, Sequences, FiniteSets, TLC

\* ------------------------------------------------------------------ bounds

\* number of photo-bearing subdirectories the largest directory tree holds
MaxAlbums == 2

\* ------------------------------------------------------------------ text

Range(s) == {s[i] : i \in 1..Len(s)}

Includes(text, fragment) == fragment \in Range(text)

StartsWith(s, p) == Len(s) >= Len(p) /\ SubSeq(s, 1, Len(p)) = p

\* the lower case of one character: a string, which for the character U+0130
\* (capital I with dot above) is the two characters U+0069 U+0307
Lower(c) ==
  CASE c = "J" -> << "j" >> [] c = "P" -> << "p" >> [] c = "G" -> << "g" >> [] c = "N" -> << "n" >>
    [] c = "M" -> << "m" >> [] c = "A" -> << "a" >> [] c = "U" -> << "u" >> [] c = "O" -> << "o" >>
    [] c = "E" -> << "e" >> [] c = "U+0130" -> << "i", "U+0307" >>
    [] OTHER -> << c >>

RECURSIVE ToLowerCase(_)
ToLowerCase(s) == IF s = << >> THEN << >> ELSE Lower(Head(s)) \o ToLowerCase(Tail(s))

\* String.prototype.lastIndexOf('.'), 0-based, -1 when absent
LastIndexOfDot(s) ==
  IF \E i \in 1..Len(s) : s[i] = "."
    THEN (CHOOSE i \in 1..Len(s) : s[i] = "." /\ \A j \in (i+1)..Len(s) : s[j] # ".") - 1
    ELSE -1

\* String.prototype.slice(start) with one argument; a negative start counts
\* from the end
Slice(s, start) ==
  LET from == IF start < 0 THEN (IF Len(s) + start < 0 THEN 0 ELSE Len(s) + start)
                           ELSE (IF start > Len(s) THEN Len(s) ELSE start)
  IN  SubSeq(s, from + 1, Len(s))

PHOTO_EXTENSIONS ==
  { <<".", "j", "p", "g">>, <<".", "j", "p", "e", "g">>, <<".", "p", "n", "g">>,
    <<".", "h", "e", "i", "c">>, <<".", "w", "e", "b", "p">>, <<".", "g", "i", "f">> }

isPhotoFile(filename) ==
  LET ext == Slice(ToLowerCase(filename), LastIndexOfDot(filename))
  IN  ext \in PHOTO_EXTENSIONS

Letters ==
  { "a", "b", "c", "d", "e", "f", "g", "h", "i", "j", "k", "l", "m", "n", "o", "p",
    "q", "r", "s", "t", "u", "v", "w", "x", "y", "z",
    "A", "E", "G", "J", "M", "N", "O", "P", "U" }

Digits == { "0", "1", "2", "3", "4", "5", "6", "7", "8", "9" }

Whitespace == { " ", "\t" }

IsRepoChar(c) == c \in Letters \cup Digits \cup { "_", "-" }

IsNotWhitespace(c) == c \notin Whitespace

\* sanitizeRepoName leaving the name as it is
sanitizeRepoNameRaw(name) == name

Dashed(c) == IF c \in Whitespace THEN "-" ELSE c

sanitizeRepoNameDashes(name) == SelectSeq([i \in 1..Len(name) |-> Dashed(name[i])], IsRepoChar)

sanitizeRepoName(name) == SelectSeq(SelectSeq(name, IsNotWhitespace), IsRepoChar)

Prefix == << "i", "4", "t", "o", "w", "-" >>

FullRepoNameAlways(repoName) == Prefix \o repoName

FullRepoName(repoName) == IF StartsWith(repoName, Prefix) THEN repoName ELSE Prefix \o repoName

RepoUrlOf(username, fullRepoName) == << "https://github.com/" >> \o username \o << "/" >> \o fullRepoName

AlbumUrlOf(fullRepoName) == << "https://rathnasorg.github.io/i4tow/a/" >> \o fullRepoName

\* ------------------------------------------------------------------ file system

\* A directory is [exists, readable, entries]; an entry is [name, kind, children]
\* with kind "file", "dir" or "err" (statSync throws: a broken symlink).
File(name) == [name |-> name, kind |-> "file", children |-> << >>]

Broken(name) == [name |-> name, kind |-> "err", children |-> << >>]

Folder(name, children) == [name |-> name, kind |-> "dir", children |-> children]

Directory(entries) == [exists |-> TRUE, readable |-> TRUE, entries |-> entries]

MissingDirectory == [exists |-> FALSE, readable |-> FALSE, entries |-> << >>]

IsPhotoEntry(e) == e.kind = "file" /\ isPhotoFile(e.name)

IsSubdirEntry(e) == e.kind = "dir" /\ ~StartsWith(e.name, << "." >>)

NamesOf(entries) == [i \in 1..Len(entries) |-> entries[i].name]

getPhotosInDir(dir) ==
  IF ~dir.exists THEN << >>
  ELSE IF ~dir.readable THEN << >>
  ELSE NamesOf(SelectSeq(dir.entries, IsPhotoEntry))

getSubdirs(dir) ==
  IF ~dir.exists THEN << >>
  ELSE IF ~dir.readable THEN << >>
  ELSE NamesOf(SelectSeq(dir.entries, IsSubdirEntry))

\* the directory join(dir, name) names
Join(dir, name) ==
  IF \E i \in 1..Len(dir.entries) : dir.entries[i].name = name /\ dir.entries[i].kind = "dir"
    THEN Directory((CHOOSE e \in Range(dir.entries) : e.name = name /\ e.kind = "dir").children)
    ELSE MissingDirectory

\* ---- the directory trees the runs are given

NumStr(n) == << "0", "1", "2", "3", "4", "5", "6", "7", "8", "9" >>[n + 1]

RootName == << "M", "y", " ", "A", "l", "b", "u", "m", "!" >>

AlbumName(i) ==
  IF i = 1 THEN << "i", "4", "t", "o", "w", "-", "a" >>
  ELSE << "t", "r", "i", "p", " ", NumStr(i) >>

AlbumFiles(i) ==
  IF i = 1
    THEN << File(<< "a", ".", "j", "p", "g" >>), File(<< "n", "o", "t", "e", "s" >>),
            File(<< "b", ".", "P", "N", "G" >>) >>
    ELSE << File(<< "c", NumStr(i), ".", "j", "p", "e", "g" >>) >>

RootFiles ==
  << File(<< "x", ".", "g", "i", "f" >>), File(<< "r", ".", "t", "x", "t" >>),
     Broken(<< "l", ".", "p", "n", "g" >>), File(<< "y", ".", "J", "P", "G" >>) >>

\* the entries every tree with subdirectories holds beside its albums: a
\* directory without photos and a hidden directory with one
OtherFolders ==
  << Folder(<< "E", "m", "p", "t", "y" >>, << File(<< "r", "e", "a", "d", "m", "e" >>) >>),
     Folder(<< ".", "g", "i", "t" >>, << File(<< "h", ".", "p", "n", "g" >>) >>) >>

AlbumFolder(i) == Folder(AlbumName(i), AlbumFiles(i))

\* n albums, the first listed before the other folders and the rest after
Folders(n) ==
  IF n = 0 THEN OtherFolders
  ELSE << AlbumFolder(1) >> \o OtherFolders \o [i \in 1..(n - 1) |-> AlbumFolder(i + 1)]

\* a missing root, an empty one, one with files only, one with up to MaxAlbums
\* albums and no file of its own, and one with files and at most one album
Trees ==
  { MissingDirectory, Directory(<< >>), Directory(RootFiles) }
  \cup { Directory(Folders(n)) : n \in 0..MaxAlbums }
  \cup { Directory(RootFiles \o Folders(n)) : n \in 0..1 }

\* ------------------------------------------------------------------ state

VARIABLES
  fs,        \* the directory tree processDirectory is given (its root)
  opts,      \* AlbumOptions and the mode flags: username, dryRun, batch, single, observer
  remote,    \* names of the repositories that exist on GitHub
  pdpc,      \* processDirectory: "start", "loop", "await", "done"
  subdirs,   \* processDirectory: the subdirectory names of the batch loop
  idx,       \* processDirectory: position of the batch loop in subdirs
  awaiting,  \* processDirectory: the createAlbum call it awaits (0: none)
  results,   \* processDirectory: the results array
  calls,     \* number of createAlbum calls made so far
  frames,    \* the createAlbum calls that have not been collected yet, by call number
  attempted, \* history: for every createAlbum call, its directory and what its scan found
  clock,     \* what Date.now() returns: the wall clock, in milliseconds
  workspaces,\* history: the workspace path of every clone started
  planned,   \* history: for every subdirectory the batch loop scanned, what it found
  input,     \* the argument of the function that is applied on its own
  value      \* the results of its successive applications

vars ==
  << fs, opts, remote, pdpc, subdirs, idx, awaiting, results, calls, frames, attempted,
     clock, workspaces, planned, input, value >>

Some(x) == << x >>

None == << >>

Usernames == { << "a", "l", "i", "c", "e" >>, << "O", "r", "g" >> }

\* the login GitHub reports for the token
AuthenticatedUser == << "A", "l", "i", "c", "e" >>

Observers == { "absent", "returns", "throws" }

\* the repositories GitHub holds before the run: the one of the first album
\* exists, the others do not
InitialRemote == { FullRepoName(sanitizeRepoName(AlbumName(1))) }

\* ---- results

NoPhotosResult(name) ==
  [name |-> name, repoUrl |-> << >>, albumUrl |-> << >>, success |-> FALSE,
   error |-> Some(<< "No photos found in directory" >>), photoCount |-> 0]

SuccessResult(name, username, found) ==
  [name |-> name, repoUrl |-> RepoUrlOf(username, name), albumUrl |-> AlbumUrlOf(name),
   success |-> TRUE, error |-> None, photoCount |-> Len(found)]

\* FailureResult without the count of the scan
FailureResultNoCount(name, error, found) ==
  [name |-> name, repoUrl |-> << >>, albumUrl |-> << >>, success |-> FALSE,
   error |-> error, photoCount |-> 0]

FailureResult(name, error, found) ==
  [name |-> name, repoUrl |-> << >>, albumUrl |-> << >>, success |-> FALSE,
   error |-> error, photoCount |-> Len(found)]

\* ---- thrown values: [isError, message]; message is also String(value)

Err(message) == [isError |-> TRUE, message |-> message]

ObserverError == Err(<< "onProgress failed" >>)

GitErrors ==
  { Err(<< "remote: ", "Authentication failed", " for origin" >>),
    Err(<< "fatal: ", "Permission denied", " (publickey)" >>),
    Err(<< "remote: ", "Repository not found", "." >>),
    Err(<< "fatal: unable to access origin" >>),
    Err(<< "remote: ", "Repository not found", "; ", "Authentication failed" >>) }

\* the errors a push is rejected with: one the catch block rewrites, one it
\* passes on
PushErrors ==
  { Err(<< "remote: ", "Authentication failed", " for origin" >>),
    Err(<< "fatal: unable to access origin" >>) }

FsErrors == { Err(<< "ENOSPC: no space left on device" >>) }

FetchErrors ==
  { Err(<< "fetch", " failed" >>), Err(<< "Unexpected token < in JSON" >>),
    [isError |-> FALSE, message |-> << "aborted" >>] }

\* FriendlyError testing for the permission text first
FriendlyErrorPermissionFirst(errorMessage) ==
  IF Includes(errorMessage, "Permission denied")
    THEN << "Permission denied. Ensure token has \"repo\" scope." >>
  ELSE IF Includes(errorMessage, "Authentication failed")
    THEN << "GitHub authentication failed. Check your token." >>
  ELSE IF Includes(errorMessage, "Repository not found")
    THEN << "Repository not found. It may still be creating, try again in a moment." >>
  ELSE errorMessage

FriendlyError(errorMessage) ==
  IF Includes(errorMessage, "Authentication failed")
    THEN << "GitHub authentication failed. Check your token." >>
  ELSE IF Includes(errorMessage, "Permission denied")
    THEN << "Permission denied. Ensure token has \"repo\" scope." >>
  ELSE IF Includes(errorMessage, "Repository not found")
    THEN << "Repository not found. It may still be creating, try again in a moment." >>
  ELSE errorMessage

\* the catch block of createAlbum
CaughtResult(name, found, thrown) == FailureResult(name, Some(FriendlyError(thrown.message)), found)

\* ---- frames
\* A frame is one createAlbum call: its position (pc), its arguments and locals,
\* its return value (ret), and the history of the call: the external
\* operations it started (ops), its progress() calls (events), the steps that
\* completed without error (ok), the response to its creation request
\* (response), the errors of its failed push attempts (pushErrors), the
\* outcome of createRepoSecret (secret), the outcome of the identity request
\* (identity: "none", "ok", "refused", "threw"). tempDir is the workspace
\* path, named by the clock reading it is built from (0: not set), and
\* workspace tells whether the directory the call created there exists
\* ("none": not created, "exists", "removed").

Event(step, detail) == [step |-> step, detail |-> detail]

Op(op, arg) == [op |-> op, arg |-> arg]

NewFrame(dir, name) ==
  [pc |-> "entry", sourceDir |-> dir, repoName |-> name, fullRepoName |-> << >>,
   photos |-> << >>, alreadyExists |-> FALSE, pushAttempts |-> 0, ret |-> None,
   ops |-> << >>, events |-> << >>, ok |-> {}, response |-> None,
   pushErrors |-> << >>, secret |-> "none", identity |-> "none", tempDir |-> 0,
   workspace |-> "none"]

Live == DOMAIN frames

Put(k, frame) == frames' = [frames EXCEPT ![k] = frame]

Returned(frame, result) == [frame EXCEPT !.pc = "returned", !.ret = Some(result)]

\* progress(step, detail): the call is recorded; the observer, when there is
\* one, is invoked and may throw
Emit(frame, step, detail) == [frame EXCEPT !.events = Append(@, Event(step, detail))]

Issue(frame, op, arg) == [frame EXCEPT !.ops = Append(@, Op(op, arg))]

Done(frame, step) == [frame EXCEPT !.ok = @ \cup { step }]

\* Throw without the catch block: the error leaves createAlbum, which returns
\* no result
ThrowEscapes(frame, thrown) == [frame EXCEPT !.pc = "threw"]

Throw(frame, thrown) == Returned(frame, CaughtResult(frame.fullRepoName, frame.photos, thrown))

ObserverThrows == opts.observer = "throws"

\* the directory a path names: << >> is the root, << name >> a subdirectory
Resolve(path) == IF path = << >> THEN fs ELSE Join(fs, path[1])

\* ------------------------------------------------------------------ Init

Init ==
  /\ fs \in Trees
  /\ opts \in [username : Usernames, dryRun : BOOLEAN, batch : BOOLEAN, single : BOOLEAN,
               observer : Observers]
  /\ remote = InitialRemote
  /\ pdpc = "start"
  /\ subdirs = << >>
  /\ idx = 0
  /\ awaiting = 0
  /\ results = << >>
  /\ calls = 0
  /\ frames = << >>
  /\ attempted = << >>
  /\ clock = 1
  /\ workspaces = << >>
  /\ planned = << >>
  /\ input = << >>
  /\ value = << >>

\* ------------------------------------------------------------------ processDirectory

\* AwaitCall without the await: the loop goes on while the call runs
AwaitCallDetached(k) == pdpc' = (IF idx = 0 THEN "done" ELSE "loop") /\ awaiting' = 0

\* `await createAlbum(...)`: processDirectory goes on only with the result
AwaitCall(k) == pdpc' = "await" /\ awaiting' = k

\* the call createAlbum(dir, name) of processDirectory
CallCreateAlbum(dir, name) ==
  /\ calls' = calls + 1
  /\ frames' = (calls + 1) :> NewFrame(dir, name) @@ frames
  /\ AwaitCall(calls + 1)

\* SingleMode with the batch flag taking precedence over a root that holds
\* photos and no subdirectory
SingleModeBatchFirst(hasPhotos, hasSubdirs) == opts.single \/ (hasPhotos /\ ~opts.batch)

SingleMode(hasPhotos, hasSubdirs) ==
  opts.single \/ (hasPhotos /\ ~hasSubdirs) \/ (hasPhotos /\ ~opts.batch)

BatchMode(hasPhotos, hasSubdirs) == opts.batch \/ hasSubdirs

ProcessDirectoryStart ==
  /\ pdpc = "start"
  /\ LET hasPhotos == Len(getPhotosInDir(fs)) > 0
         hasSubdirs == Len(getSubdirs(fs)) > 0
     IN  IF SingleMode(hasPhotos, hasSubdirs)
           THEN /\ CallCreateAlbum(<< >>, sanitizeRepoName(RootName))
                /\ UNCHANGED << subdirs, idx >>
         ELSE IF BatchMode(hasPhotos, hasSubdirs)
           THEN /\ subdirs' = getSubdirs(fs)
                /\ idx' = 1
                /\ pdpc' = "loop"
                /\ UNCHANGED << awaiting, calls, frames >>
         ELSE /\ pdpc' = "done"
              /\ UNCHANGED << subdirs, idx, awaiting, calls, frames >>
  /\ UNCHANGED << fs, opts, remote, results, attempted,
                  clock, workspaces, planned, input, value >>

\* BatchNext without the test of subdirPhotos.length
BatchNextNoSkip ==
  /\ pdpc = "loop"
  /\ IF idx > Len(subdirs)
       THEN /\ pdpc' = "done"
            /\ UNCHANGED << idx, awaiting, calls, frames >>
       ELSE /\ CallCreateAlbum(<< subdirs[idx] >>, sanitizeRepoName(subdirs[idx]))
            /\ UNCHANGED idx
  /\ planned' = IF idx > Len(subdirs) THEN planned
                ELSE Append(planned, [name |-> subdirs[idx],
                                      found |-> getPhotosInDir(Join(fs, subdirs[idx]))])
  /\ UNCHANGED << fs, opts, remote, subdirs, results, attempted, clock, workspaces, input, value >>

\* lines 374-382: one iteration of the batch loop, or its end
BatchNext ==
  /\ pdpc = "loop"
  /\ IF idx > Len(subdirs)
       THEN /\ pdpc' = "done"
            /\ UNCHANGED << idx, awaiting, calls, frames >>
     ELSE IF Len(getPhotosInDir(Join(fs, subdirs[idx]))) > 0
       THEN /\ CallCreateAlbum(<< subdirs[idx] >>, sanitizeRepoName(subdirs[idx]))
            /\ UNCHANGED idx
     ELSE /\ idx' = idx + 1
          /\ UNCHANGED << pdpc, awaiting, calls, frames >>
  /\ planned' = IF idx > Len(subdirs) THEN planned
                ELSE Append(planned, [name |-> subdirs[idx],
                                      found |-> getPhotosInDir(Join(fs, subdirs[idx]))])
  /\ UNCHANGED << fs, opts, remote, subdirs, results, attempted, clock, workspaces, input, value >>

\* AlbumReturn leaving the loop at the first failed album
AlbumReturnAbort ==
  /\ pdpc = "await"
  /\ awaiting \in Live
  /\ frames[awaiting].pc = "returned"
  /\ results' = Append(results, frames[awaiting].ret[1])
  /\ frames' = [k \in Live \ { awaiting } |-> frames[k]]
  /\ awaiting' = 0
  /\ IF idx = 0 \/ ~frames[awaiting].ret[1].success
       THEN pdpc' = "done" /\ UNCHANGED idx
       ELSE pdpc' = "loop" /\ idx' = idx + 1
  /\ UNCHANGED << fs, opts, remote, subdirs, calls, attempted,
                  clock, workspaces, planned, input, value >>

\* the awaited createAlbum promise resolves: the result is pushed
AlbumReturn ==
  /\ pdpc = "await"
  /\ awaiting \in Live
  /\ frames[awaiting].pc = "returned"
  /\ results' = Append(results, frames[awaiting].ret[1])
  /\ frames' = [k \in Live \ { awaiting } |-> frames[k]]
  /\ awaiting' = 0
  /\ IF idx = 0 THEN pdpc' = "done" /\ UNCHANGED idx
                ELSE pdpc' = "loop" /\ idx' = idx + 1
  /\ UNCHANGED << fs, opts, remote, subdirs, calls, attempted,
                  clock, workspaces, planned, input, value >>

\* ------------------------------------------------------------------ createAlbum

\* program constants
MaxAttempts == 3

GraceMs == 3000

BackoffMs == 2000

\* the frames a throwing observer leaves after progress(step, detail)
ProgressThrows(frame, step, detail) ==
  IF ObserverThrows THEN { Throw(Emit(frame, step, detail), ObserverError) } ELSE {}

\* DryRunResult as a result without the count of the scan
DryRunResultNoCount(name, username, found) ==
  [name |-> name, repoUrl |-> RepoUrlOf(username, name), albumUrl |-> AlbumUrlOf(name),
   success |-> TRUE, error |-> None, photoCount |-> 0]

DryRunResult(name, username, found) ==
  [name |-> name, repoUrl |-> RepoUrlOf(username, name), albumUrl |-> AlbumUrlOf(name),
   success |-> TRUE, error |-> None, photoCount |-> Len(found)]

\* EnterOutcomes with the dry-run test before the test for photos
EnterOutcomesDryRunFirst(frame) ==
  LET name == FullRepoName(frame.repoName)
      found == getPhotosInDir(Resolve(frame.sourceDir))
      f0 == [frame EXCEPT !.fullRepoName = name, !.photos = found]
      f1 == Emit(f0, "Creating repository", name)
  IN  IF opts.dryRun THEN { Returned(f0, DryRunResult(name, opts.username, found)) }
      ELSE IF Len(found) = 0 THEN { Returned(f0, NoPhotosResult(name)) }
      ELSE { [Issue(f1, "fetchUser", 0) EXCEPT !.pc = "identity"] }
           \cup ProgressThrows(f0, "Creating repository", name)

\* lines 207-240: scan, validation, dry run, and the identity request of
\* createGitHubRepo
EnterOutcomes(frame) ==
  LET name == FullRepoName(frame.repoName)
      found == getPhotosInDir(Resolve(frame.sourceDir))
      f0 == [frame EXCEPT !.fullRepoName = name, !.photos = found]
      f1 == Emit(f0, "Creating repository", name)
  IN  IF Len(found) = 0 THEN { Returned(f0, NoPhotosResult(name)) }
      ELSE IF opts.dryRun THEN { Returned(f0, DryRunResult(name, opts.username, found)) }
      ELSE { [Issue(f1, "fetchUser", 0) EXCEPT !.pc = "identity"] }
           \cup ProgressThrows(f0, "Creating repository", name)

CreateAlbumEnter(k) ==
  /\ frames[k].pc = "entry"
  /\ \E f \in EnterOutcomes(frames[k]) :
       /\ Put(k, f)
       /\ attempted' = Append(attempted, [call |-> k, dir |-> frames[k].sourceDir,
                                           found |-> getPhotosInDir(Resolve(frames[k].sourceDir))])
  /\ UNCHANGED << fs, opts, remote, pdpc, subdirs, idx, awaiting, results, calls,
                  clock, workspaces, planned, input, value >>

\* ---- createGitHubRepo

InvalidToken == << "Invalid GitHub token. Check your token and try again." >>

CannotCreate(username) ==
  << "Cannot create repo under \"" >> \o username
    \o << "\". Ensure token has access to this account/org." >>

\* the catch block of createGitHubRepo
CreateRepoCatch(thrown) ==
  IF thrown.isError
    THEN IF Includes(thrown.message, "fetch")
           THEN << "Network error. Check your internet connection." >>
           ELSE thrown.message
    ELSE << "Unknown error creating repository" >>

\* createAlbum, lines 241-250
CreateFailed(frame, error) == Returned(frame, FailureResult(frame.fullRepoName, Some(error), frame.photos))

Endpoint(username) ==
  IF ToLowerCase(username) = ToLowerCase(AuthenticatedUser) THEN "createUserRepo" ELSE "createOrgRepo"

\* IdentityOutcomes without the test of userResponse.ok
IdentityOutcomesUnchecked(frame) ==
  { [Issue([frame EXCEPT !.identity = "refused"], Endpoint(opts.username), 0) EXCEPT !.pc = "creating"] }
  \cup { [Issue([frame EXCEPT !.identity = "ok"], Endpoint(opts.username), 0) EXCEPT !.pc = "creating"] }
  \cup { CreateFailed([frame EXCEPT !.identity = "threw"], CreateRepoCatch(e)) : e \in FetchErrors }

\* lines 80-97: GET /user answers with a status that is not ok, answers with
\* the login, or the request throws
IdentityOutcomes(frame) ==
  { CreateFailed([frame EXCEPT !.identity = "refused"], InvalidToken) }
  \cup { [Issue([frame EXCEPT !.identity = "ok"], Endpoint(opts.username), 0) EXCEPT !.pc = "creating"] }
  \cup { CreateFailed([frame EXCEPT !.identity = "threw"], CreateRepoCatch(e)) : e \in FetchErrors }

\* the response to GET /user
IdentityResponse(k) ==
  /\ frames[k].pc = "identity"
  /\ \E f \in IdentityOutcomes(frames[k]) : Put(k, f)
  /\ UNCHANGED << fs, opts, remote, pdpc, subdirs, idx, awaiting, results, calls, attempted,
                  clock, workspaces, planned, input, value >>

\* the responses to the creation request: [ok, message, error0, full_name]
Created == [ok |-> TRUE, message |-> None, error0 |-> None, full_name |-> TRUE]

CreatedUnnamed == [ok |-> TRUE, message |-> None, error0 |-> None, full_name |-> FALSE]

NameExists ==
  [ok |-> FALSE, message |-> Some(<< "Repository creation failed." >>),
   error0 |-> Some(<< "name ", "already exists", " on this account" >>), full_name |-> FALSE]

Refused(message) == [ok |-> FALSE, message |-> message, error0 |-> None, full_name |-> FALSE]

Refusals ==
  { Refused(Some(<< "Bad credentials" >>)), Refused(Some(<< "Not Found" >>)),
    Refused(Some(<< "Validation Failed" >>)), Refused(None) }

CreateResponses(exists) ==
  (IF exists THEN { NameExists } ELSE { Created, CreatedUnnamed }) \cup Refusals

\* CreateOutcome passing on the message of every refusal as it is
CreateOutcomeUnclassified(resp, username) ==
  IF ~resp.ok
    THEN IF resp.error0 # None /\ Includes(resp.error0[1], "already exists")
           THEN [success |-> TRUE, alreadyExists |-> TRUE, error |-> None]
         ELSE [success |-> FALSE, alreadyExists |-> FALSE,
               error |-> IF resp.message # None THEN resp.message
                         ELSE Some(<< "Failed to create repository" >>)]
  ELSE IF ~resp.full_name
    THEN [success |-> FALSE, alreadyExists |-> FALSE,
          error |-> Some(<< "Repository creation failed - no repo returned" >>)]
  ELSE [success |-> TRUE, alreadyExists |-> FALSE, error |-> None]

\* lines 105-131: the outcome [success, alreadyExists, error] of a response
CreateOutcome(resp, username) ==
  IF ~resp.ok
    THEN IF resp.error0 # None /\ Includes(resp.error0[1], "already exists")
           THEN [success |-> TRUE, alreadyExists |-> TRUE, error |-> None]
         ELSE IF resp.message = Some(<< "Bad credentials" >>)
           THEN [success |-> FALSE, alreadyExists |-> FALSE, error |-> Some(InvalidToken)]
         ELSE IF resp.message = Some(<< "Not Found" >>)
           THEN [success |-> FALSE, alreadyExists |-> FALSE, error |-> Some(CannotCreate(username))]
         ELSE [success |-> FALSE, alreadyExists |-> FALSE,
               error |-> IF resp.message # None THEN resp.message
                         ELSE Some(<< "Failed to create repository" >>)]
  ELSE IF ~resp.full_name
    THEN [success |-> FALSE, alreadyExists |-> FALSE,
          error |-> Some(<< "Repository creation failed - no repo returned" >>)]
  ELSE [success |-> TRUE, alreadyExists |-> FALSE, error |-> None]

\* lines 259-263: the workspace path is built from Date.now() and the
\* template clone is started
StartClone(frame) ==
  { [Issue(Emit(frame, "Downloading template", << "rathnasorg/i4tow-album" >>), "clone", 0)
       EXCEPT !.pc = "cloning", !.tempDir = clock] }
  \cup ProgressThrows(frame, "Downloading template", << "rathnasorg/i4tow-album" >>)

\* the clones started, after a step that left the call as frame
CloneStarted(frame) ==
  workspaces' = IF frame.pc = "cloning" THEN Append(workspaces, frame.tempDir) ELSE workspaces

\* AfterCreate waiting whether or not the repository existed
AfterCreateAlwaysWait(frame, alreadyExists) ==
  { [Issue(Emit(frame, "Waiting for GitHub", << "Repository provisioning..." >>), "sleep", GraceMs)
       EXCEPT !.pc = "grace"] }
  \cup ProgressThrows(frame, "Waiting for GitHub", << "Repository provisioning..." >>)

\* lines 251-257: an existing repository is used at once, a new one after
\* the provisioning wait
AfterCreate(frame, alreadyExists) ==
  IF alreadyExists
    THEN StartClone(Emit(frame, "Repository exists", << "Using existing repository" >>))
         \cup ProgressThrows(frame, "Repository exists", << "Using existing repository" >>)
    ELSE { [Issue(Emit(frame, "Waiting for GitHub", << "Repository provisioning..." >>), "sleep", GraceMs)
              EXCEPT !.pc = "grace"] }
         \cup ProgressThrows(frame, "Waiting for GitHub", << "Repository provisioning..." >>)

\* CreateOutcomes going on whatever createGitHubRepo returned
CreateOutcomesIgnoreFailure(frame, resp) ==
  LET out == CreateOutcome(resp, opts.username)
      f1 == [frame EXCEPT !.alreadyExists = out.alreadyExists]
  IN  AfterCreate(IF out.success THEN Done(f1, "createRepo") ELSE f1, out.alreadyExists)

\* lines 241-257: the result of createGitHubRepo is acted on
CreateOutcomes(frame, resp) ==
  LET out == CreateOutcome(resp, opts.username)
  IN  IF ~out.success THEN { CreateFailed(frame, out.error[1]) }
      ELSE AfterCreate(Done([frame EXCEPT !.alreadyExists = out.alreadyExists], "createRepo"),
                       out.alreadyExists)

\* the response to the creation request
CreateResponse(k) ==
  /\ frames[k].pc = "creating"
  /\ \/ \E resp \in CreateResponses(frames[k].fullRepoName \in remote) :
          /\ remote' = IF resp.ok THEN remote \cup { frames[k].fullRepoName } ELSE remote
          /\ \E f \in CreateOutcomes([frames[k] EXCEPT !.response = Some(resp)], resp) :
               Put(k, f) /\ CloneStarted(f)
     \/ \E e \in FetchErrors :
          /\ Put(k, CreateFailed(frames[k], CreateRepoCatch(e)))
          /\ UNCHANGED << remote, workspaces >>
  /\ UNCHANGED << fs, opts, pdpc, subdirs, idx, awaiting, results, calls, attempted, clock, planned,
                  input, value >>

\* sleep(3000) is over
GraceElapsed(k) ==
  /\ frames[k].pc = "grace"
  /\ \E f \in StartClone(frames[k]) : Put(k, f) /\ CloneStarted(f)
  /\ UNCHANGED << fs, opts, remote, pdpc, subdirs, idx, awaiting, results, calls, attempted,
                  clock, planned, input, value >>

\* ---- staging

\* what git answers when the destination of a clone exists and is not empty
DestinationExists == Err(<< "fatal: destination path already exists and is not an empty directory." >>)

\* the errors git.clone rejects with: an earlier clone into the same path may
\* have left its directory there
CloneErrors(tempDir) ==
  IF Cardinality({ i \in 1..Len(workspaces) : workspaces[i] = tempDir }) > 1
    THEN GitErrors \cup { DestinationExists }
    ELSE GitErrors

\* git.clone resolves, having created the workspace, or rejects; the clone
\* has taken time (milliseconds are numbered in the order they begin)
CloneResponse(k) ==
  /\ frames[k].pc = "cloning"
  /\ \/ Put(k, [Done(frames[k], "clone") EXCEPT !.pc = "strip", !.workspace = "exists"])
     \/ \E e \in CloneErrors(frames[k].tempDir) : Put(k, Throw(frames[k], e))
  /\ clock' = clock + 1
  /\ UNCHANGED << fs, opts, remote, pdpc, subdirs, idx, awaiting, results, calls, attempted,
                  workspaces, planned, input, value >>

\* what a clone of the template repository holds at its top level
TemplateEntries == { ".git", "temp-demo-files", "public", "package.json" }

\* lines 265-274: each of the two paths is removed when it exists
StripOutcomes(frame) ==
  LET f1 == Emit(frame, "Preparing album", << "Cleaning template files" >>)
      f2 == IF ".git" \in TemplateEntries THEN Issue(f1, "rmGit", 0) ELSE f1
      f3 == IF "temp-demo-files" \in TemplateEntries THEN Issue(f2, "rmDemo", 0) ELSE f2
  IN  ProgressThrows(frame, "Preparing album", << "Cleaning template files" >>)
      \cup { Throw(f, e) : f \in { f2, f3 } \ { f1 }, e \in FsErrors }
      \cup { [Done(f3, "strip") EXCEPT !.pc = "copy"] }

StripTemplate(k) ==
  /\ frames[k].pc = "strip"
  /\ \E f \in StripOutcomes(frames[k]) : Put(k, f)
  /\ UNCHANGED << fs, opts, remote, pdpc, subdirs, idx, awaiting, results, calls, attempted,
                  clock, workspaces, planned, input, value >>

\* mkdirSync and the first n cpSync calls of the loop
Copied(frame, n) ==
  [frame EXCEPT !.ops = @ \o << Op("mkdir", 0) >> \o [i \in 1..n |-> Op("cp", i)]]

\* lines 276-290
CopyOutcomes(frame) ==
  LET n == Len(frame.photos)
      f1 == Emit(frame, "Copying photos", << NumStr(n), " files" >>)
      f2 == Done(Copied(f1, n), "copy")
      detail == << "Pushing to " >> \o opts.username \o << "/" >> \o frame.fullRepoName
      f3 == Emit(f2, "Uploading to GitHub", detail)
  IN  ProgressThrows(frame, "Copying photos", << NumStr(n), " files" >>)
      \cup { Throw(Copied(f1, j), e) : j \in 0..n, e \in FsErrors }
      \cup ProgressThrows(f2, "Uploading to GitHub", detail)
      \cup { [Issue(f3, "init", 0) EXCEPT !.pc = "init"] }

CopyPhotos(k) ==
  /\ frames[k].pc = "copy"
  /\ \E f \in CopyOutcomes(frames[k]) : Put(k, f)
  /\ UNCHANGED << fs, opts, remote, pdpc, subdirs, idx, awaiting, results, calls, attempted,
                  clock, workspaces, planned, input, value >>

\* ---- commit and push

\* a git call resolves, and the next one is made, or rejects
GitStep(k, pc, next) ==
  /\ frames[k].pc = pc
  /\ \/ Put(k, [Issue(Done(frames[k], pc), next, 0) EXCEPT !.pc = next])
     \/ \E e \in GitErrors : Put(k, Throw(frames[k], e))
  /\ UNCHANGED << fs, opts, remote, pdpc, subdirs, idx, awaiting, results, calls, attempted,
                  clock, workspaces, planned, input, value >>

InitResponse(k) == GitStep(k, "init", "addRemote")

AddRemoteResponse(k) == GitStep(k, "addRemote", "add")

AddResponse(k) == GitStep(k, "add", "commit")

\* line 298: the loop condition
MayPush(pushAttempts) == pushAttempts < MaxAttempts

\* line 300: localGit.push is called
StartPush(frame) == [Issue(frame, "push", frame.pushAttempts + 1) EXCEPT !.pc = "pushing"]

\* CommitResponse committing again after a commit that failed
CommitResponseRetry(k) ==
  /\ frames[k].pc = "commit"
  /\ \/ Put(k, StartPush([Done(frames[k], "commit") EXCEPT !.pushAttempts = 0]))
     \/ Put(k, Issue(frames[k], "commit", 0))
  /\ UNCHANGED << fs, opts, remote, pdpc, subdirs, idx, awaiting, results, calls, attempted,
                  clock, workspaces, planned, input, value >>

\* lines 293-300: the commit resolves and the retry loop is entered
CommitResponse(k) ==
  /\ frames[k].pc = "commit"
  /\ \/ Put(k, StartPush([Done(frames[k], "commit") EXCEPT !.pushAttempts = 0]))
     \/ \E e \in GitErrors : Put(k, Throw(frames[k], e))
  /\ UNCHANGED << fs, opts, remote, pdpc, subdirs, idx, awaiting, results, calls, attempted,
                  clock, workspaces, planned, input, value >>

\* lines 312-314: the public-key request of createRepoSecret
StartSecret(frame) ==
  { [Issue(Emit(frame, "Setting up Actions", << "Creating deploy token..." >>), "getPublicKey", 0)
       EXCEPT !.pc = "secretKey"] }
  \cup ProgressThrows(frame, "Setting up Actions", << "Creating deploy token..." >>)

\* PushFailed giving up one attempt late
PushFailedLate(frame, pushError) ==
  LET f1 == [frame EXCEPT !.pushAttempts = @ + 1]
      detail == << "Attempt ", NumStr(f1.pushAttempts + 1), "/", NumStr(MaxAttempts), "..." >>
  IN  IF f1.pushAttempts > MaxAttempts THEN { Throw(f1, pushError) }
      ELSE { [Issue(Emit(f1, "Retrying push", detail), "sleep", BackoffMs) EXCEPT !.pc = "backoff"] }
           \cup ProgressThrows(f1, "Retrying push", detail)

\* lines 302-309: the catch block of a push attempt
PushFailed(frame, pushError) ==
  LET f1 == [frame EXCEPT !.pushAttempts = @ + 1]
      detail == << "Attempt ", NumStr(f1.pushAttempts + 1), "/", NumStr(MaxAttempts), "..." >>
  IN  IF f1.pushAttempts >= MaxAttempts THEN { Throw(f1, pushError) }
      ELSE { [Issue(Emit(f1, "Retrying push", detail), "sleep", BackoffMs) EXCEPT !.pc = "backoff"] }
           \cup ProgressThrows(f1, "Retrying push", detail)

\* localGit.push resolves or rejects
PushResponse(k) ==
  /\ frames[k].pc = "pushing"
  /\ \/ \E f \in StartSecret(Done(frames[k], "push")) : Put(k, f)
     \/ \E e \in PushErrors :
          \E f \in PushFailed([frames[k] EXCEPT !.pushErrors = Append(@, e)], e) : Put(k, f)
  /\ UNCHANGED << fs, opts, remote, pdpc, subdirs, idx, awaiting, results, calls, attempted,
                  clock, workspaces, planned, input, value >>

\* sleep(2000) is over: the loop condition is evaluated again
BackoffElapsed(k) ==
  /\ frames[k].pc = "backoff"
  /\ IF MayPush(frames[k].pushAttempts)
       THEN Put(k, StartPush(frames[k]))
       ELSE \E f \in StartSecret(frames[k]) : Put(k, f)
  /\ UNCHANGED << fs, opts, remote, pdpc, subdirs, idx, awaiting, results, calls, attempted,
                  clock, workspaces, planned, input, value >>

\* ---- secret, cleanup, return

\* the catch block of createRepoSecret
SecretCatch(thrown) ==
  IF thrown.isError THEN thrown.message ELSE << "Unknown error creating secret" >>

\* Finish with what rmSync throws reaching the catch block of createAlbum
FinishSurfacing(frame) ==
  { Returned(Issue([frame EXCEPT !.workspace = "removed"], "rmTemp", 0),
             SuccessResult(frame.fullRepoName, opts.username, frame.photos)) }
  \cup { Throw(Issue([frame EXCEPT !.workspace = "exists"], "rmTemp", 0), e) : e \in FsErrors }

\* lines 320-333: rmSync removes the workspace, or throws and is ignored; then
\* the result
Finish(frame) ==
  { Returned(Issue([frame EXCEPT !.workspace = w], "rmTemp", 0),
             SuccessResult(frame.fullRepoName, opts.username, frame.photos)) :
      w \in { "removed", "exists" } }

\* lines 315-318 and on: secretResult is [success, error]
SecretDone(frame, secretResult) ==
  IF secretResult.success THEN Finish([frame EXCEPT !.secret = "created"])
  ELSE LET detail == << "Could not create deploy secret: " >> \o secretResult.error
           f1 == [frame EXCEPT !.secret = "failed"]
       IN  Finish(Emit(f1, "Warning", detail)) \cup ProgressThrows(f1, "Warning", detail)

SecretFailed(error) == [success |-> FALSE, error |-> error]

SecretCreated == [success |-> TRUE, error |-> << >>]

\* what the two requests of createRepoSecret throw
KeyFetchErrors == { Err(<< "fetch", " failed" >>) }

PutFetchErrors == { [isError |-> FALSE, message |-> << "aborted" >>] }

SealErrors == { Err(<< "bad public key size" >>) }

\* the response to the public-key request; then sealedbox.seal and the upload
KeyResponse(k) ==
  /\ frames[k].pc = "secretKey"
  /\ \/ \E f \in SecretDone(frames[k], SecretFailed(<< "Failed to get repository public key" >>)) :
          Put(k, f)
     \/ \E e \in KeyFetchErrors :
          \E f \in SecretDone(frames[k], SecretFailed(SecretCatch(e))) : Put(k, f)
     \/ \E e \in SealErrors :
          \E f \in SecretDone(Issue(frames[k], "seal", 0), SecretFailed(SecretCatch(e))) : Put(k, f)
     \/ Put(k, [Issue(Issue(frames[k], "seal", 0), "putSecret", 0) EXCEPT !.pc = "secretPut"])
  /\ UNCHANGED << fs, opts, remote, pdpc, subdirs, idx, awaiting, results, calls, attempted,
                  clock, workspaces, planned, input, value >>

PutRefusals == { Some(<< "Resource not accessible by personal access token" >>), None }

\* the response to the upload
PutResponse(k) ==
  /\ frames[k].pc = "secretPut"
  /\ \/ \E f \in SecretDone(frames[k], SecretCreated) : Put(k, f)
     \/ \E m \in PutRefusals :
          \E f \in SecretDone(frames[k],
                              SecretFailed(IF m # None THEN m[1] ELSE << "Failed to create secret" >>)) :
            Put(k, f)
     \/ \E e \in PutFetchErrors :
          \E f \in SecretDone(frames[k], SecretFailed(SecretCatch(e))) : Put(k, f)
  /\ UNCHANGED << fs, opts, remote, pdpc, subdirs, idx, awaiting, results, calls, attempted,
                  clock, workspaces, planned, input, value >>

\* ------------------------------------------------------------------ environment

IsNoPhotoEntry(e) == ~IsPhotoEntry(e)

\* the tree after the photos of the directory path names have been removed
RemovePhotos(path) ==
  IF path = << >> THEN [fs EXCEPT !.entries = SelectSeq(@, IsNoPhotoEntry)]
  ELSE LET emptied(e) == IF e.name = path[1] /\ e.kind = "dir"
                           THEN [e EXCEPT !.children = SelectSeq(@, IsNoPhotoEntry)]
                           ELSE e
       IN  [fs EXCEPT !.entries = [i \in 1..Len(fs.entries) |-> emptied(fs.entries[i])]]

\* another process removes the photos of the directory of call k after the
\* caller scanned it (lines 364, 376) and before createAlbum scans it (line 209)
PhotosRemoved(k) ==
  /\ frames[k].pc = "entry"
  /\ getPhotosInDir(Resolve(frames[k].sourceDir)) # << >>
  /\ fs' = RemovePhotos(frames[k].sourceDir)
  /\ UNCHANGED << opts, remote, pdpc, subdirs, idx, awaiting, results, calls, frames, attempted,
                  clock, workspaces, planned, input, value >>

\* the wall clock is set back (a clock synchronisation step)
ClockSetBack ==
  /\ clock > 1
  /\ clock' \in 1..(clock - 1)
  /\ UNCHANGED << fs, opts, remote, pdpc, subdirs, idx, awaiting, results, calls, frames,
                  attempted, workspaces, planned, input, value >>

\* ------------------------------------------------------------------ specification

Next ==
  \/ ProcessDirectoryStart
  \/ BatchNext
  \/ AlbumReturn
  \/ \E k \in Live : CreateAlbumEnter(k)
  \/ \E k \in Live : IdentityResponse(k)
  \/ \E k \in Live : CreateResponse(k)
  \/ \E k \in Live : GraceElapsed(k)
  \/ \E k \in Live : CloneResponse(k)
  \/ \E k \in Live : StripTemplate(k)
  \/ \E k \in Live : CopyPhotos(k)
  \/ \E k \in Live : InitResponse(k)
  \/ \E k \in Live : AddRemoteResponse(k)
  \/ \E k \in Live : AddResponse(k)
  \/ \E k \in Live : CommitResponse(k)
  \/ \E k \in Live : PushResponse(k)
  \/ \E k \in Live : BackoffElapsed(k)
  \/ \E k \in Live : KeyResponse(k)
  \/ \E k \in Live : PutResponse(k)

Spec == Init /\ [][Next]_vars

\* the program beside a process that changes the directories it reads
RaceNext ==
  \/ Next
  \/ \E k \in Live : PhotosRemoved(k)

RaceSpec == Init /\ [][RaceNext]_vars

\* the program under a wall clock that does not only go forward
ClockNext ==
  \/ Next
  \/ ClockSetBack

ClockSpec == Init /\ [][ClockNext]_vars

\* what a run leaves behind for the next: its results without their errors
\* and counts, and the repositories that exist
Outcome(r) == [name |-> r.name, success |-> r.success, repoUrl |-> r.repoUrl, albumUrl |-> r.albumUrl]

\* processDirectory is run again with the same arguments after it has
\* finished: the repositories, the clock and the workspaces remain, the
\* earlier run is kept in value
Rerun ==
  /\ pdpc = "done"
  /\ value = << >>
  /\ value' = << [results |-> [i \in 1..Len(results) |-> Outcome(results[i])], remote |-> remote] >>
  /\ pdpc' = "start"
  /\ subdirs' = << >>
  /\ idx' = 0
  /\ results' = << >>
  /\ calls' = 0
  /\ attempted' = << >>
  /\ planned' = << >>
  /\ UNCHANGED << fs, opts, remote, awaiting, frames, clock, workspaces, input >>

RerunNext ==
  \/ Next
  \/ Rerun

RerunSpec == Init /\ [][RerunNext]_vars

\* the runs on the authenticated user's own account (the account decides
\* the address of the creation request and nothing of the control flow)
FairInit == Init /\ opts.username = << "a", "l", "i", "c", "e" >>

\* the program when every external call is answered and every continuation
\* that is ready is run by the event loop
FairSpec == FairInit /\ [][Next]_vars /\ WF_vars(Next)

\* ------------------------------------------------------------------ the functions on their own

MaxLen == 3

MaxApply == 2

MaxEntries == 2

\* no run of processDirectory is under way
Idle ==
  /\ opts = [username |-> AuthenticatedUser, dryRun |-> TRUE, batch |-> FALSE, single |-> FALSE,
             observer |-> "absent"]
  /\ remote = InitialRemote
  /\ pdpc = "start"
  /\ subdirs = << >>
  /\ idx = 0
  /\ awaiting = 0
  /\ results = << >>
  /\ calls = 0
  /\ frames = << >>
  /\ attempted = << >>
  /\ clock = 1
  /\ workspaces = << >>
  /\ planned = << >>

\* the characters of the names given: letters of both cases, a digit, the two
\* marks a repository name keeps, white space and other punctuation
TextChars == { "a", "M", "4", "-", "_", " ", "\t", "!", "." }

Texts(n) == UNION { [1..len -> TextChars] : len \in 0..n }

\* names with and without the marker, at the front and elsewhere
Hints ==
  Texts(MaxLen) \cup { Prefix \o t : t \in Texts(MaxLen - 1) }
                \cup { t \o Prefix : t \in Texts(1) \ { << >> } }
                \cup { << "I", "4", "T", "O", "W", "-" >>, SubSeq(Prefix, 1, 5) }

\* the last result, or the argument when the function has not been applied
Latest == IF value = << >> THEN input ELSE value[Len(value)]

ApplyPrefix ==
  /\ Len(value) < MaxApply
  /\ value' = Append(value, FullRepoName(Latest))
  /\ UNCHANGED << fs, opts, remote, pdpc, subdirs, idx, awaiting, results, calls, frames,
                  attempted, clock, workspaces, planned, input >>

PrefixInit == Idle /\ fs = MissingDirectory /\ input \in Hints /\ value = << >>

PrefixSpec == PrefixInit /\ [][ApplyPrefix]_vars

ApplySanitize ==
  /\ Len(value) < MaxApply
  /\ value' = Append(value, sanitizeRepoName(Latest))
  /\ UNCHANGED << fs, opts, remote, pdpc, subdirs, idx, awaiting, results, calls, frames,
                  attempted, clock, workspaces, planned, input >>

SanitizeInit == Idle /\ fs = MissingDirectory /\ input \in Texts(MaxLen) /\ value = << >>

SanitizeSpec == SanitizeInit /\ [][ApplySanitize]_vars

\* the entries a scanned directory is made of: files with and without a
\* listed extension in either case, a name that is only an extension, a
\* name with a character whose lower case is longer, entries that cannot be
\* probed, and directories with plain, dotted and photo-like names
EntryPool ==
  { File(<< "a", ".", "j", "p", "g" >>), File(<< "b", ".", "P", "N", "G" >>),
    File(<< "c", ".", "J", "p", "E", "g" >>), File(<< "n", "o", "t", "e", "s" >>),
    File(<< "x", ".", "t", "x", "t" >>), File(<< ".", "g", "i", "f" >>),
    File(<< "j", "p", "g" >>), File(<< "a", ".", "p", "n", "g", ".", "b", "a", "k" >>),
    File(<< "U+0130", ".", "j", "p", "g" >>),
    Broken(<< "l", ".", "p", "n", "g" >>), Broken(<< "d" >>),
    Folder(<< "t", "r", "i", "p" >>, << >>), Folder(<< ".", "g", "i", "t" >>, << >>),
    Folder(<< "p", ".", "j", "p", "g" >>, << >>) }

RECURSIVE Listings(_)
\* the listings of at most n entries with different names
Listings(n) ==
  IF n = 0 THEN { << >> }
  ELSE LET shorter == Listings(n - 1)
       IN  shorter \cup { Append(l, e) : l \in shorter, e \in EntryPool }

DistinctNames(l) == \A i, j \in 1..Len(l) : l[i].name = l[j].name => i = j

UnreadableDirectory == [exists |-> TRUE, readable |-> FALSE, entries |-> << >>]

ScanDirs ==
  { MissingDirectory, UnreadableDirectory }
    \cup { Directory(l) : l \in { m \in Listings(MaxEntries) : DistinctNames(m) } }

ScanPhotos ==
  /\ value = << >>
  /\ value' = << [photos |-> getPhotosInDir(fs)] >>
  /\ UNCHANGED << fs, opts, remote, pdpc, subdirs, idx, awaiting, results, calls, frames,
                  attempted, clock, workspaces, planned, input >>

ScanSubdirs ==
  /\ Len(value) = 1
  /\ value' = Append(value, [subdirs |-> getSubdirs(fs)])
  /\ UNCHANGED << fs, opts, remote, pdpc, subdirs, idx, awaiting, results, calls, frames,
                  attempted, clock, workspaces, planned, input >>

ScanNext ==
  \/ ScanPhotos
  \/ ScanSubdirs

ScanInit == Idle /\ fs \in ScanDirs /\ input = << >> /\ value = << >>

ScanSpec == ScanInit /\ [][ScanNext]_vars

\* the pieces error texts are made of: the three texts the catch block looks
\* for, and others
Fragments ==
  { "Authentication failed", "Permission denied", "Repository not found", "remote: ",
    "authentication failed", "ENOSPC: no space left on device" }

\* what the try block of createAlbum throws: errors with a message, and
\* values that are not errors (String(error) is their text)
Thrown ==
  { [isError |-> b, message |-> m] :
      b \in BOOLEAN, m \in UNION { [1..len -> Fragments] : len \in 0..MaxLen } }

\* lines 334-355: the catch block of createAlbum runs on what was thrown
CatchBlock ==
  /\ value = << >>
  /\ value' = << CaughtResult(Prefix \o << "a" >>, << << "x", ".", "g", "i", "f" >> >>, input) >>
  /\ UNCHANGED << fs, opts, remote, pdpc, subdirs, idx, awaiting, results, calls, frames,
                  attempted, clock, workspaces, planned, input >>

CatchInit == Idle /\ fs = MissingDirectory /\ input \in Thrown /\ value = << >>

CatchSpec == CatchInit /\ [][CatchBlock]_vars

\* ------------------------------------------------------------------ properties

\* what the scan at the start of call k found
Scan(k) == attempted[k].found

Entered == { k \in Live : frames[k].pc # "entry" }

Finished == { k \in Live : frames[k].pc = "returned" }

Has(frame, op) == \E i \in 1..Len(frame.ops) : frame.ops[i].op = op

Pushes(frame) == { i \in 1..Len(frame.ops) : frame.ops[i].op = "push" }

\* C1: a createAlbum call whose directory holds no photo, dry run or not,
\* returns at once the failed result "No photos found in directory" with
\* photoCount 0 and empty URLs; it has started no external operation and made
\* no progress call.
C1_NoPhotosShortCircuit ==
  \A k \in Entered :
    Scan(k) = << >> =>
      /\ frames[k].pc = "returned"
      /\ frames[k].ret =
           Some([name |-> frames[k].fullRepoName, repoUrl |-> << >>, albumUrl |-> << >>,
                 success |-> FALSE, error |-> Some(<< "No photos found in directory" >>),
                 photoCount |-> 0])
      /\ frames[k].ops = << >>
      /\ frames[k].events = << >>

C1_Witness ==
  \E k \in Finished : Scan(k) = << >> /\ opts.dryRun /\ ~frames[k].ret[1].success

RankOf ==
  [fetchUser |-> 1, createUserRepo |-> 2, createOrgRepo |-> 2, clone |-> 4, rmGit |-> 5,
   rmDemo |-> 6, mkdir |-> 7, cp |-> 8, init |-> 9, addRemote |-> 10, add |-> 11,
   commit |-> 12, push |-> 13, getPublicKey |-> 14, seal |-> 15, putSecret |-> 16,
   rmTemp |-> 17]

Rank(o) == IF o.op = "sleep" THEN (IF o.arg = 3000 THEN 3 ELSE 13) ELSE RankOf[o.op]

\* the steps of a run, in order
Chain == << "createRepo", "clone", "strip", "copy", "init", "addRemote", "add", "commit", "push" >>

\* how many steps of Chain must have succeeded before the operation of each
\* rank is started
NeedsOf == << 0, 0, 1, 1, 2, 2, 3, 3, 4, 5, 6, 7, 8, 9, 9, 9, 9 >>

\* C3: the operations of a live run are started in the fixed order identity,
\* creation, (wait,) clone, stripping, copy, init, addRemote, add, commit,
\* push, secret, cleanup, each at most once but for the copies and the push
\* attempts, and an operation is started only when every earlier step has
\* succeeded.
C3_FixedOrder ==
  \A k \in Live :
    LET ops == frames[k].ops
        done == Cardinality(frames[k].ok)
    IN  /\ frames[k].ok = { Chain[i] : i \in 1..done }
        /\ \A i \in 1..Len(ops) : NeedsOf[Rank(ops[i])] <= done
        /\ \A i \in 1..(Len(ops) - 1) :
             \/ Rank(ops[i]) < Rank(ops[i + 1])
             \/ Rank(ops[i]) = Rank(ops[i + 1]) /\ ops[i].op \in { "cp", "push", "sleep" }
        /\ (ops # << >> => ~opts.dryRun)

C3_Witness ==
  \E k \in Finished :
    /\ frames[k].ret[1].success
    /\ \A op \in { "fetchUser", "sleep", "clone", "rmGit", "rmDemo", "mkdir", "cp", "init",
                   "addRemote", "add", "commit", "push", "getPublicKey", "seal", "putSecret",
                   "rmTemp" } : Has(frames[k], op)

\* C4: a run starts at most 3 push attempts, never more than one beyond the
\* attempts that failed; every attempt but the first directly follows a
\* backoff wait that directly follows the attempt before it, and a backoff
\* wait is always followed by an attempt; when 3 attempts have failed the run
\* has returned success=false with the (classified) error of the third, the
\* last operation it started being that push.
C4_PushRetry ==
  \A k \in Live :
    LET f == frames[k]
        ops == f.ops
    IN  /\ Cardinality(Pushes(f)) <= 3
        /\ Cardinality(Pushes(f)) <= Len(f.pushErrors) + 1
        /\ \A i \in Pushes(f) :
             \/ ops[i - 1].op = "commit"
             \/ ops[i - 1] = Op("sleep", 2000) /\ ops[i - 2].op = "push"
        /\ \A i \in 1..Len(ops) :
             ops[i] = Op("sleep", 2000) =>
               /\ ops[i - 1].op = "push"
               /\ IF i < Len(ops) THEN ops[i + 1].op = "push" ELSE f.pc = "backoff"
        /\ Len(f.pushErrors) = 3 =>
             /\ f.pc = "returned"
             /\ f.ret[1].success = FALSE
             /\ f.ret[1].error = Some(FriendlyError(f.pushErrors[3].message))
             /\ ops[Len(ops)].op = "push"
             /\ ~Has(f, "getPublicKey")

C4_Witness ==
  \E k \in Finished :
    /\ Len(frames[k].pushErrors) = 3
    /\ frames[k].pushErrors[1] # frames[k].pushErrors[3]
    /\ Cardinality(Pushes(frames[k])) = 3

\* C5: a run whose push succeeded at attempt k made exactly k attempts and,
\* once it has returned, returned success=true.
C5_PushSuccessIsRunSuccess ==
  \A k \in Finished :
    "push" \in frames[k].ok =>
      /\ Cardinality(Pushes(frames[k])) = Len(frames[k].pushErrors) + 1
      /\ frames[k].ret[1].success

\* C6: a run whose push succeeded and whose secret provisioning failed
\* returns success=true with both URLs, after a "Warning" progress call and
\* the cleanup.
C6_SecretFailureNotFatal ==
  \A k \in Finished :
    frames[k].secret = "failed" =>
      /\ frames[k].ret[1].success
      /\ frames[k].ret[1].repoUrl # << >>
      /\ frames[k].ret[1].albumUrl # << >>
      /\ \E i \in 1..Len(frames[k].events) : frames[k].events[i].step = "Warning"
      /\ Has(frames[k], "rmTemp")

\* C7: a creation response "name already exists" counts as a successful
\* creation: the run takes no provisioning wait and the next operation it
\* starts is the clone; after a response that created the repository a clone
\* is preceded by exactly one provisioning wait of 3000 ms, started right
\* after the creation request and right before the clone; and a clone is
\* started after no other response.
C7_ExistingRepoSkipsWait ==
  \A k \in Live :
    LET f == frames[k]
        ops == f.ops
        waits == { i \in 1..Len(ops) : ops[i] = Op("sleep", 3000) }
    IN  /\ f.response = Some(NameExists) =>
             /\ waits = {}
             /\ "createRepo" \in f.ok
             /\ Len(ops) > 2 => ops[3].op = "clone"
        /\ (f.response = Some(Created) /\ Has(f, "clone")) =>
             /\ Cardinality(waits) = 1
             /\ ops[2].op \in { "createUserRepo", "createOrgRepo" }
             /\ ops[3] = Op("sleep", 3000)
             /\ ops[4].op = "clone"
        /\ Has(f, "clone") => f.response \in { Some(NameExists), Some(Created) }

C7_Witness ==
  \E k \in Finished :
    /\ frames[k].response = Some(NameExists)
    /\ frames[k].ret[1].success
    /\ Has(frames[k], "push")

\* a result is well formed for a scan
WellFormed(r, found) ==
  /\ r.success = FALSE => r.repoUrl = << >> /\ r.albumUrl = << >> /\ r.error # None /\ r.error[1] # << >>
  /\ r.success = TRUE => r.repoUrl # << >> /\ r.albumUrl # << >> /\ r.error = None
  /\ r.photoCount = Len(found)

HasPhotos(name) == Len(getPhotosInDir(Join(fs, name))) > 0

\* the subdirectories a batch is to attempt, in listing order
PhotoSubdirs == SelectSeq(getSubdirs(fs), HasPhotos)

\* C9: a batch that has ended returned one result for every subdirectory
\* with photos, in listing order, whichever of them failed.
C9_BatchGoesOn ==
  (pdpc = "done" /\ idx > 0) =>
    LET albums == PhotoSubdirs
    IN  /\ Len(results) = Len(albums)
        /\ \A i \in 1..Len(results) :
             /\ results[i].name = FullRepoName(sanitizeRepoName(albums[i]))
             /\ attempted[i].dir = << albums[i] >>

C9_Witness ==
  /\ pdpc = "done"
  /\ idx > 0
  /\ Len(results) = 2
  /\ ~results[1].success
  /\ results[1].photoCount > 0
  /\ results[2].success

\* C10: at most one createAlbum call is in progress; processDirectory is
\* awaiting it, and every earlier call has returned and its result has been
\* collected.
C10_OneAlbumAtATime ==
  /\ Cardinality(Live) <= 1
  /\ \A k \in Live : pdpc = "await" /\ awaiting = k /\ Len(results) = k - 1
  /\ calls = Len(results) + Cardinality(Live)

C10_Witness ==
  \E k \in Live : k = 2 /\ Len(results) = 1 /\ Has(frames[k], "push") /\ frames[k].pc # "returned"

\* C11: processDirectory selects its mode by precedence. When single is set,
\* or the root holds photos and no subdirectory, or the root holds photos and
\* batch is not set, it makes exactly one createAlbum call, for the root (a
\* root without photos gives the one failed result "No photos found in
\* directory"); otherwise, when batch is set or the root has subdirectories,
\* every call is for a subdirectory of the root; and with neither photos nor
\* subdirectories and single not set, no call is made and the list returned
\* is empty.
C11_ModeSelection ==
  LET rootPhotos == Len(getPhotosInDir(fs)) > 0
      rootSubdirs == Len(getSubdirs(fs)) > 0
      one == opts.single \/ (rootPhotos /\ ~rootSubdirs) \/ (rootPhotos /\ ~opts.batch)
      names == Range(getSubdirs(fs))
  IN  /\ one =>
            /\ calls <= 1
            /\ \A i \in 1..Len(attempted) : attempted[i].dir = << >>
            /\ pdpc # "start" => calls = 1
            /\ pdpc = "done" =>
                 /\ Len(results) = 1
                 /\ ~rootPhotos =>
                      /\ ~results[1].success
                      /\ results[1].error = Some(<< "No photos found in directory" >>)
      /\ (~one /\ (opts.batch \/ rootSubdirs)) =>
            /\ \A i \in 1..Len(attempted) :
                 /\ Len(attempted[i].dir) = 1
                 /\ attempted[i].dir[1] \in names
            /\ Len(attempted) + Cardinality({ k \in Live : frames[k].pc = "entry" }) = calls
      /\ (~rootPhotos /\ ~rootSubdirs /\ ~opts.single) =>
            /\ calls = 0
            /\ pdpc = "done" => results = << >>

C11_Witness ==
  /\ pdpc = "done"
  /\ opts.single
  /\ opts.batch
  /\ Len(getSubdirs(fs)) > 1
  /\ getPhotosInDir(fs) = << >>
  /\ Len(results) = 1
  /\ results[1].error = Some(<< "No photos found in directory" >>)

FoundPhotos(p) == p.found # << >>

\* the subdirectories in which the scan of the batch loop found photos
Kept == SelectSeq(planned, FoundPhotos)

\* C12 as claimed: a batch returns exactly one result for each subdirectory in
\* which its scan found a photo and none for a subdirectory without photos, and
\* no result of a batch carries the error "No photos found in directory",
\* whatever happens to the directories between the scan of the batch loop and
\* the scan of createAlbum.
C12_BatchNeverReportsEmpty ==
  idx > 0 =>
    /\ \A i \in 1..Len(results) : results[i].error # Some(<< "No photos found in directory" >>)
    /\ pdpc = "done" => Len(results) = Len(Kept)

\* C12 as amended: a batch has made one call, in listing order, for each
\* non-hidden subdirectory in which the scan of the batch loop found a photo
\* and none for the others, and returns one result for each call; a result
\* carries the error "No photos found in directory" exactly when the scan of
\* createAlbum found no photo, the photos having been removed since the scan
\* of the batch loop.
C12_BatchSkipsAtPlanning ==
  idx > 0 =>
    /\ calls = Len(Kept)
    /\ \A i \in 1..Len(planned) :
         /\ planned[i].name = getSubdirs(fs)[i]
         /\ planned[i].name[1] # "."
    /\ \A i \in 1..Len(attempted) : attempted[i].dir = << Kept[i].name >>
    /\ \A i \in 1..Len(results) :
         /\ results[i].name =
              (LET n == SelectSeq(Kept[i].name, IsRepoChar)
               IN  IF StartsWith(n, Prefix) THEN n ELSE Prefix \o n)
         /\ results[i].error = Some(<< "No photos found in directory" >>)
              <=> attempted[i].found = << >>
    /\ pdpc = "done" =>
         /\ Len(planned) = Len(getSubdirs(fs))
         /\ Len(results) = Len(Kept)

C12_Witness ==
  /\ pdpc = "done"
  /\ idx > 0
  /\ Len(planned) = 3
  /\ Len(results) = 2
  /\ results[1].error = Some(<< "No photos found in directory" >>)
  /\ results[2].success

\* C13: once a run that cloned the template has returned, with success or
\* with a failure of staging, commit or push, and whatever the observer, the
\* workspace directory it created has been removed, or at least its removal
\* has been attempted (rmSync is best-effort).
C13_WorkspaceRemoved ==
  \A k \in Finished :
    (opts.observer # "throws" /\ "clone" \in frames[k].ok) =>
      \/ frames[k].workspace = "removed"
      \/ frames[k].workspace = "exists" /\ Has(frames[k], "rmTemp")

\* C14: any two runs clone into distinct workspace paths, and no clone is
\* rejected because its destination is a directory an earlier run left behind.
C14_WorkspaceNeverReused ==
  /\ \A i \in 1..Len(workspaces) : \A j \in (i + 1)..Len(workspaces) : workspaces[i] # workspaces[j]
  /\ \A i \in 1..Len(results) : results[i].error # Some(DestinationExists.message)

\* the operation a run starts once each step of Chain but the last has succeeded
NextOp == << "clone", "rmGit", "mkdir", "init", "addRemote", "add", "commit", "push" >>

\* C15: progress reporting is advisory. Whatever the observer does, a run
\* returns only where the run without observer returns, and with its result:
\* a failure is the failure of the scan (no photos) or of the operation the run
\* started last, never the error of the observer, and a run whose push
\* succeeded returns success=true.
C15_ProgressAdvisory ==
  \A k \in Finished :
    LET f == frames[k]
        r == f.ret[1]
        done == Cardinality(f.ok)
    IN  /\ r.error # Some(<< "onProgress failed" >>)
        /\ (~r.success /\ f.ops = << >>) => Scan(k) = << >>
        /\ (~r.success /\ done \in 1..8) => Has(f, NextOp[done])
        /\ "push" \in f.ok => r.success

\* C15 for the observers that do not throw
C15_AdvisoryUnlessThrowing == opts.observer # "throws" => C15_ProgressAdvisory

ExpectedName(dir) ==
  LET base == IF dir = << >> THEN RootName ELSE dir[1]
      kept == SelectSeq(base, IsRepoChar)
  IN  IF StartsWith(kept, << "i", "4", "t", "o", "w", "-" >>) THEN kept
      ELSE << "i", "4", "t", "o", "w", "-" >> \o kept

\* C18: every result of processDirectory is named prefix(sanitize(basename(d)))
\* for the directory d of its album, and a root with n photos and no
\* subdirectory, run without flags, yields exactly one result, with
\* photoCount = n.
C18_ResultNames ==
  /\ \A i \in 1..Len(results) : results[i].name = ExpectedName(attempted[i].dir)
  /\ (pdpc = "done" /\ ~opts.single /\ ~opts.batch) =>
       LET n == Len(getPhotosInDir(fs))
       IN  (n > 0 /\ getSubdirs(fs) = << >>) =>
             /\ Len(results) = 1
             /\ attempted[1].dir = << >>
             /\ results[1].photoCount = n

C18_Witness ==
  /\ pdpc = "done"
  /\ ~opts.single
  /\ ~opts.batch
  /\ getSubdirs(fs) = << >>
  /\ Len(results) = 1
  /\ results[1].name = << "i", "4", "t", "o", "w", "-", "M", "y", "A", "l", "b", "u", "m" >>
  /\ results[1].photoCount = 2

\* C17: applying the 'i4tow-' prefix once or twice gives the same name; the
\* result always begins with the marker and ends with the name given; a name
\* that already begins with the marker is returned unchanged, and any other
\* name gets the marker exactly once
C17_PrefixIdempotent ==
  LET marker == << "i", "4", "t", "o", "w", "-" >>
      marked == Len(input) >= 6 /\ \A i \in 1..6 : input[i] = marker[i]
  IN  /\ Len(value) >= 1 =>
           /\ Len(value[1]) >= 6 /\ \A i \in 1..6 : value[1][i] = marker[i]
           /\ marked => value[1] = input
           /\ ~marked => value[1] = marker \o input
      /\ Len(value) >= 2 => value[2] = value[1]

C17_Witness ==
  /\ Len(value) = 2
  /\ input = << "i", "4", "t", "o", "w", "-", "a", "M" >>
  /\ value[2] = input

\* the characters of text that are letters, digits, hyphen or underscore
AllowedChar(c) ==
  c \in { "a", "b", "c", "d", "e", "f", "g", "h", "i", "j", "k", "l", "m", "n", "o", "p", "q",
          "r", "s", "t", "u", "v", "w", "x", "y", "z", "A", "B", "C", "D", "E", "F", "G", "H",
          "I", "J", "K", "L", "M", "N", "O", "P", "Q", "R", "S", "T", "U", "V", "W", "X", "Y",
          "Z", "0", "1", "2", "3", "4", "5", "6", "7", "8", "9", "-", "_" }

\* C19: sanitizeRepoName is defined on every text; its output holds only
\* letters, digits, hyphen and underscore; it is the allowed characters of
\* the input in their order (so empty when the input has none); and
\* sanitising the output again changes nothing
C19_SanitizeIdempotent ==
  /\ Len(value) >= 1 =>
       /\ \A i \in 1..Len(value[1]) : AllowedChar(value[1][i])
       /\ value[1] = SelectSeq(input, AllowedChar)
       /\ (\A i \in 1..Len(input) : ~AllowedChar(input[i])) => value[1] = << >>
  /\ Len(value) >= 2 => value[2] = value[1]

C19_Witness ==
  /\ Len(value) = 2
  /\ input = << "M", " ", "!" >>
  /\ value = << << "M" >>, << "M" >> >>

\* the upper case of the letters the listed extensions are written with
UpperOf(c) ==
  CASE c = "j" -> "J" [] c = "p" -> "P" [] c = "g" -> "G" [] c = "e" -> "E" [] c = "n" -> "N"
    [] c = "h" -> "H" [] c = "i" -> "I" [] c = "c" -> "C" [] c = "w" -> "W" [] c = "b" -> "B"
    [] c = "f" -> "F" [] OTHER -> c

\* the name ends with the extension ext, in whatever case
EndsWithAnyCase(name, ext) ==
  /\ Len(name) >= Len(ext)
  /\ \A i \in 1..Len(ext) :
       LET c == name[Len(name) - Len(ext) + i] IN c = ext[i] \/ c = UpperOf(ext[i])

HasListedExtension(name) ==
  \E ext \in { << ".", "j", "p", "g" >>, << ".", "j", "p", "e", "g" >>, << ".", "p", "n", "g" >>,
                << ".", "h", "e", "i", "c" >>, << ".", "w", "e", "b", "p" >>,
                << ".", "g", "i", "f" >> } : EndsWithAnyCase(name, ext)

ShouldBePhoto(e) == e.kind = "file" /\ HasListedExtension(e.name)

ShouldBeSubdir(e) == e.kind = "dir" /\ e.name[1] # "."

Listed(keep(_)) ==
  IF fs.exists /\ fs.readable
    THEN LET kept == SelectSeq(fs.entries, keep) IN [i \in 1..Len(kept) |-> kept[i].name]
    ELSE << >>

\* C20: both scanners return for every directory: the empty list for one
\* that does not exist or cannot be listed; otherwise the photos are the
\* regular files whose extension is, in whatever case, in the allow-list,
\* and the subdirectories are the directories whose name does not begin
\* with a dot; an entry that cannot be probed is left out and every other
\* entry is classified as without it
C20_ScannerTotal ==
  /\ Len(value) >= 1 => value[1].photos = Listed(ShouldBePhoto)
  /\ Len(value) >= 2 => value[2].subdirs = Listed(ShouldBeSubdir)

\* the same for the directories in which lower case is as long as the name
C20_ScannerTotalSameLength ==
  (\A i \in 1..Len(fs.entries) : Len(ToLowerCase(fs.entries[i].name)) = Len(fs.entries[i].name))
    => C20_ScannerTotal

\* the two creation requests are one kind of call
Kind(op) == IF op \in { "createUserRepo", "createOrgRepo" } THEN "create" ELSE op

OnceOnly == { "fetchUser", "create", "clone", "commit", "getPublicKey", "putSecret" }

\* the places in the run's operations where one of the six calls was started
Started(frame) == { i \in 1..Len(frame.ops) : Kind(frame.ops[i].op) \in OnceOnly }

\* C21: in one createAlbum run the identity request, the creation request,
\* the clone, the commit, the public-key request and the secret upload are
\* each started at most once (the six calls started are as many as their
\* kinds), and a run in which the identity request, the creation request,
\* the clone or the commit failed has started nothing at all after it.
C21_OnlyPushRetries ==
  \A k \in Live :
    LET f == frames[k]
        last == f.ops[Len(f.ops)].op
        started == Started(f)
    IN  /\ Cardinality(started) = Cardinality({ Kind(f.ops[i].op) : i \in started })
        /\ f.identity \in { "refused", "threw" } => f.pc = "returned" /\ last = "fetchUser"
        /\ (f.pc = "returned" /\ f.response = None /\ f.identity = "ok") => Kind(last) = "create"
        /\ (f.response # None /\ "createRepo" \notin f.ok)
              => f.pc = "returned" /\ last \in { "createUserRepo", "createOrgRepo" }
        /\ (f.pc = "returned" /\ Has(f, "clone") /\ "clone" \notin f.ok) => last = "clone"
        /\ (f.pc = "returned" /\ Has(f, "commit") /\ "commit" \notin f.ok) => last = "commit"

C21_Witness ==
  \E k \in Finished :
    /\ Has(frames[k], "commit")
    /\ "commit" \notin frames[k].ok
    /\ ~frames[k].ret[1].success

\* a run is over exactly when it holds its one result, and every call has
\* either a live run or a result in the list
OneResultEach ==
  /\ \A k \in Live : (frames[k].pc = "returned") = (frames[k].ret # None)
  /\ \A k \in Live : frames[k].ret # None => frames[k].ret[1].success \in BOOLEAN
  /\ \A k \in Live : frames[k].pc \in
       { "entry", "identity", "creating", "grace", "cloning", "strip", "copy", "init", "addRemote",
         "add", "commit", "pushing", "backoff", "secretKey", "secretPut", "returned" }
  /\ Len(results) + Cardinality(Live) = calls

\* C22: when every external call is answered, every createAlbum call that
\* was made ends with exactly one result, success or failure, which
\* processDirectory receives: no error of a step leaves the call as an
\* exception, no run stays in the push loop, and the whole run ends.
C22_RunsTerminate ==
  /\ []OneResultEach
  /\ <>(pdpc = "done" /\ Live = {} /\ Len(results) = calls)

C22_Witness ==
  /\ pdpc = "done"
  /\ Len(results) = 2
  /\ results[1].success
  /\ ~results[2].success
  /\ results[2].photoCount > 0

\* C23: a run that attempted the removal of its workspace (its push having
\* succeeded) returns, whether the removal succeeded or failed, success=true
\* with no error, its name, the two URLs built from the username and the
\* name, and the number of photos found; the removal is the last thing it
\* did, and the only progress call after "Setting up Actions" is the
\* warning of a failed secret.
C23_CleanupSwallowed ==
  \A k \in Finished :
    Has(frames[k], "rmTemp") =>
      LET f == frames[k]
          n == Len(f.events)
      IN  /\ "push" \in f.ok
          /\ f.workspace \in { "removed", "exists" }
          /\ f.ret = Some([name |-> f.fullRepoName,
                           repoUrl |-> << "https://github.com/" >> \o opts.username \o << "/" >>
                                         \o f.fullRepoName,
                           albumUrl |-> << "https://rathnasorg.github.io/i4tow/a/" >> \o f.fullRepoName,
                           success |-> TRUE, error |-> None, photoCount |-> Len(Scan(k))])
          /\ f.ops[Len(f.ops)].op = "rmTemp"
          /\ IF f.secret = "failed"
               THEN f.events[n].step = "Warning" /\ f.events[n - 1].step = "Setting up Actions"
               ELSE f.events[n].step = "Setting up Actions"

C23_Witness ==
  \E k \in Finished :
    /\ Has(frames[k], "rmTemp")
    /\ frames[k].workspace = "exists"
    /\ frames[k].secret = "created"
    /\ frames[k].ret[1].success

\* the response says that the name is taken
SaysExists(resp) ==
  ~resp.ok /\ resp.error0 # None /\ \E i \in 1..Len(resp.error0[1]) : resp.error0[1][i] = "already exists"

\* the error a run reports for a creation response that is a failure
CreationError(resp) ==
  IF resp.ok THEN << "Repository creation failed - no repo returned" >>
  ELSE IF resp.message = << << "Bad credentials" >> >>
    THEN << "Invalid GitHub token. Check your token and try again." >>
  ELSE IF resp.message = << << "Not Found" >> >>
    THEN << "Cannot create repo under \"" >> \o opts.username
           \o << "\". Ensure token has access to this account/org." >>
  ELSE IF resp.message # << >> THEN resp.message[1]
  ELSE << "Failed to create repository" >>

Mentions(text, piece) == \E i \in 1..Len(text) : text[i] = piece

\* C25: the result the catch block of createAlbum makes of a thrown error
\* is a failure with empty URLs and the photo count, whose error is the
\* authentication guidance when the raw text mentions "Authentication
\* failed"; else the permission guidance when it mentions "Permission
\* denied"; else the not-found guidance when it mentions "Repository not
\* found"; else the raw text itself.
C25_ClassifierPrecedence ==
  value # << >> =>
    LET raw == input.message
        r == value[1]
    IN  /\ ~r.success /\ r.repoUrl = << >> /\ r.albumUrl = << >> /\ r.photoCount = 1
        /\ Mentions(raw, "Authentication failed")
              => r.error = << << "GitHub authentication failed. Check your token." >> >>
        /\ (~Mentions(raw, "Authentication failed") /\ Mentions(raw, "Permission denied"))
              => r.error = << << "Permission denied. Ensure token has \"repo\" scope." >> >>
        /\ (~Mentions(raw, "Authentication failed") /\ ~Mentions(raw, "Permission denied")
               /\ Mentions(raw, "Repository not found"))
              => r.error = << << "Repository not found. It may still be creating, try again in a moment." >> >>
        /\ (~Mentions(raw, "Authentication failed") /\ ~Mentions(raw, "Permission denied")
               /\ ~Mentions(raw, "Repository not found"))
              => r.error = << raw >>

C25_Witness ==
  /\ value # << >>
  /\ input.message = << "Repository not found", "Permission denied", "Authentication failed" >>
  /\ value[1].error = << << "GitHub authentication failed. Check your token." >> >>

\* C26: in a second run of processDirectory, a createAlbum call for a name
\* whose repository existed when the run began is told "already exists"
\* when its creation request succeeds, and then takes no provisioning wait;
\* when its push has succeeded and it has returned, it returned
\* success=true, with the same URLs as the result of that name in the
\* first run when that one was a success.
C26_RerunRecovers ==
  value # << >> =>
    \A k \in Live :
      LET f == frames[k]
          first == value[1]
      IN  f.fullRepoName \in first.remote =>
            /\ "createRepo" \in f.ok =>
                  /\ f.alreadyExists
                  /\ \A i \in 1..Len(f.ops) : f.ops[i] # Op("sleep", 3000)
            /\ (f.pc = "returned" /\ "push" \in f.ok) =>
                  /\ f.ret[1].success
                  /\ \A i \in 1..Len(first.results) :
                       (first.results[i].name = f.fullRepoName /\ first.results[i].success) =>
                         /\ f.ret[1].name = first.results[i].name
                         /\ f.ret[1].repoUrl = first.results[i].repoUrl
                         /\ f.ret[1].albumUrl = first.results[i].albumUrl

\* the same for the runs whose observer does not throw
C26_RerunRecoversUnlessThrowing == opts.observer # "throws" => C26_RerunRecovers

\* a second run that succeeded for a name the first run had created and
\* failed at
C26_Recovered ==
  /\ value # << >>
  /\ \E k \in Finished :
       /\ frames[k].ret[1].success
       /\ frames[k].alreadyExists
       /\ frames[k].fullRepoName \notin InitialRemote
       /\ \E i \in 1..Len(value[1].results) :
            value[1].results[i].name = frames[k].fullRepoName /\ ~value[1].results[i].success

====
